---- MODULE Spec2Model ----
\* Closed-loop experiment controllers of DeepLabStream
\* (experiments/custom/experiments.py) as one state machine.  A controller
\* object is the record `self`; the actuators it drives (laser, stimulus
\* process, classifier pool) are the record `sink`; `now` is time.time();
\* `call` records the call the frame driver has just made: the operation,
\* the state it was made in, its input, the collaborator calls it issued and
\* how it returned; `stop_calls` records the stop_experiment() calls made so
\* far: whether the driver made one, and how many check_skeleton made.
EXTENDS Integers, Sequences, FiniteSets, TLC

VARIABLES self, sink, now, call, stop_calls

vars == <<self, sink, now, call, stop_calls>>

\* ------------------------------------------------------------------ bounds
\* The horizon of the clock, in ticks.
MaxTime == 5
\* Timer(10): the per-trial cooldown, in ticks (experiments.py:187,306,425,534).
TrialTimerSeconds == 2
\* Timer(600): the experiment timer, in ticks (experiments.py:188,307,426,535,971).
ExpTimerSeconds == 4
\* Timer(9999): the experiment timer of SimbaBehaviorPoolExperiment (experiments.py:70).
SimbaExpTimerSeconds == 5
\* The repetition cap 10 (experiments.py:201,423,552), scaled.
MaxReps == 2
\* The repetition cap 999 (experiments.py:67,304), scaled.
MaxRepsLarge == 3
\* The longest list of skeletons a frame carries.
MaxSkeletons == 2
\* Timer(15): the inter-trial timer, in ticks (experiments.py:1036,1325).
IntertrialSeconds == 2
\* Timer(1800): the experiment timer of the angle-gated controllers, in ticks
\* (experiments.py:1037,1326,1429).
AngleExpTimerSeconds == 4
\* _max_trial_time = 5 (experiments.py:1041,1330), in ticks.
MaxTrialTime == 2
\* _max_trial_time = 100 of C4TeamOptoG (experiments.py:1433), in ticks.
C4MaxTrialTime == 3
\* _max_total_time = 600 (experiments.py:1043,1332,1435), in ticks.
MaxTotalTime == 3
\* The most stimulations recorded in _results.
MaxResults == 2
\* The most events SpeedExperiment counts.
MaxEvents == 2
\* stop_calls counts up to this number and stays there.
MaxStopCalls == 2
\* EXP_COMPLETION = 10 (experiments.py:652), scaled.
ExpCompletion == 2
\* The most repetitions SecondExperiment counts for a trial.
MaxCount == 2
\* Timer(30): the experiment timer of TestExperiment, in ticks (experiments.py:669).
TestExpTimerSeconds == 3
\* generate_trials_list(self._trials, 30): the trials of Reward_PreTraining
\* (experiments.py:1546), scaled.
NumTrials == 2
\* _iti_duration = 10 (experiments.py:1548), in ticks.
ItiDuration == 1
\* The most stimulations Reward_PreTraining counts in _trial_counter.
MaxTrialCounter == 3
\* random.randint(min, 30 + 1): the longest inter-trial interval drawn, in
\* ticks (experiments.py:1638).
MaxIti == 1

\* ------------------------------------------------------------- constants
None == "None"
NoTime == -1
\* ExampleSocialInteractionExperiment._min_animals
min_animals == 2
\* _min_trial_time of FirstExperiment and OptogenExperiment
MinTrialTime == 1
\* TestExperiment._MAX_TOTAL_STIM_TIME, in ticks
MAX_TOTAL_STIM_TIME == 10
\* TestExperiment._BP_THRESHOLD
BP_THRESHOLD == 3
\* The body parts of a skeleton.
NumBodyParts == 11

TrialTableClasses ==
    {"SimbaBehaviorPoolExperiment", "BsoidBehaviorPoolExperiment",
     "ExampleSocialInteractionExperiment", "ExampleMultipleAnimalExperiment",
     "ExampleExperiment"}

PoolClasses == {"SimbaBehaviorPoolExperiment", "BsoidBehaviorPoolExperiment"}

AngleGatedClasses == {"FirstExperiment", "OptogenExperiment", "C4TeamOptoG"}

Classes ==
    TrialTableClasses \cup AngleGatedClasses
       \cup {"SpeedExperiment", "TestExperiment", "SecondExperiment",
             "Reward_PreTraining"}

\* A trial table that would list ExampleExperiment's trials the other way round.
Trials_reversed(cls) ==
    CASE cls = "ExampleExperiment" -> <<"Bluebar_whiteback", "Greenbar_whiteback">>
      [] cls = "SecondExperiment" -> <<"Greenbar_whiteback", "Bluebar_whiteback">>
      [] cls = "Reward_PreTraining" -> <<"Pretraining">>
      [] cls = "ExampleMultipleAnimalExperiment" -> <<"Greenbar_whiteback">>
      [] OTHER -> <<"DLStream_test">>

\* The keys of the _trials property, in dict order.
Trials(cls) ==
    CASE cls \in {"ExampleExperiment", "SecondExperiment"}
           -> <<"Greenbar_whiteback", "Bluebar_whiteback">>
      [] cls = "Reward_PreTraining" -> <<"Pretraining">>
      [] cls = "ExampleMultipleAnimalExperiment" -> <<"Greenbar_whiteback">>
      [] OTHER -> <<"DLStream_test">>

TrialNames(cls) == {Trials(cls)[i] : i \in 1..Len(Trials(cls))}

\* The repetition cap a class compares its counts with.
max_reps(cls) ==
    CASE cls \in {"SimbaBehaviorPoolExperiment", "ExampleSocialInteractionExperiment"}
           -> MaxRepsLarge
      [] OTHER -> MaxReps

\* ------------------------------------------------------------------ Timer
\* stimulus_process.Timer is not among the sources; it is modelled from the
\* specification (sections 3 and 4.1): a duration and a start timestamp,
\* absent until started; start() records now, also when already started;
\* reset() is start(); check_timer() is true while the timer is started and
\* not expired (elapsed < duration).  A timer never started reports False:
\* the trial tables promote a trial on "not check_timer()" of a cooldown
\* timer that was never started, and Reward_PreTraining's comment reads
\* "if the timer ran out or was not started yet again".
Timer(seconds) == [seconds |-> seconds, start_time |-> NoTime]

TimerStart(t) == [t EXCEPT !.start_time = now]

TimerReset(t) == TimerStart(t)

CheckTimer(t) == t.start_time # NoTime /\ now - t.start_time < t.seconds

\* --------------------------------------------------------------- machine
\* What a handler works on: the object, the actuators, the collaborator
\* calls issued so far in this call, and how the call returns.
Ev(name, arg) == [ev |-> name, arg |-> arg]

Emit(m, name, arg) == [m EXCEPT !.trace = Append(@, Ev(name, arg))]

Machine == [self |-> self, sink |-> sink, trace |-> <<>>, ret |-> None]

Count(trace, name) == Cardinality({i \in 1..Len(trace) : trace[i].ev = name})

\* ------------------------------------------------------ stimulus process
\* ExampleProtocolProcess and the classifier pools are external
\* collaborators (stimulus_process.py, classifier.py are not among the
\* sources): start(), end() and set_trial() are recorded, the process keeps
\* the trial last set.
ProcessStart(m) ==
    Emit([m EXCEPT !.sink.process = "running"], "process.start", "")

ProcessEnd(m) ==
    Emit([m EXCEPT !.sink.process = "ended"], "process.end", "")

ProcessSetTrial(m, trial) ==
    Emit([m EXCEPT !.sink.process_trial = trial], "process.set_trial", trial)

PoolStart(m) == Emit([m EXCEPT !.sink.pool = "running"], "pool.start", "")

PoolEnd(m) == Emit([m EXCEPT !.sink.pool = "ended"], "pool.end", "")

\* ------------------------------------------------- trial-table controllers
TrialTableInit(cls) ==
    [cls |-> cls,
     experiment_finished |-> FALSE,
     event |-> None,
     current_trial |-> None,
     trial_count |-> [t \in TrialNames(cls) |-> 0],
     trial_timers |-> [t \in TrialNames(cls) |->
                          Timer(IF cls = "SimbaBehaviorPoolExperiment"
                                THEN 0 ELSE TrialTimerSeconds)],
     exp_timer |-> Timer(IF cls = "SimbaBehaviorPoolExperiment"
                         THEN SimbaExpTimerSeconds ELSE ExpTimerSeconds)]

\* stop_experiment of ExampleExperiment, ExampleMultipleAnimalExperiment and
\* ExampleSocialInteractionExperiment.
ExampleExperiment_stop_experiment(m) ==
    ProcessEnd([Emit(m, "stop_experiment", "") EXCEPT
                  !.self.experiment_finished = TRUE,
                  !.self.exp_timer = TimerReset(@)])

\* stop_experiment of SimbaBehaviorPoolExperiment and BsoidBehaviorPoolExperiment.
PoolExperiment_stop_experiment(m) ==
    LET ended == PoolEnd(ProcessEnd([Emit(m, "stop_experiment", "") EXCEPT
                                       !.self.experiment_finished = TRUE]))
    IN  [ended EXCEPT !.self.exp_timer = TimerReset(@)]

\* laser_switch(state), serial_laser_switch(ser, state): the laser is an
\* external actuator (stimulation.py is not among the sources); it keeps the
\* state last commanded.
LaserSwitch(m, state) ==
    Emit([m EXCEPT !.sink.laser = IF state THEN "on" ELSE "off"],
         "laser_switch", IF state THEN "True" ELSE "False")

\* stop_experiment of FirstExperiment, OptogenExperiment and C4TeamOptoG.
OptogenExperiment_stop_experiment(m) ==
    [Emit(m, "stop_experiment", "") EXCEPT !.self.experiment_finished = TRUE]

\* A stop that would leave the laser as it is.
SpeedExperiment_stop_experiment_without_laser_off(m) ==
    [Emit(m, "stop_experiment", "") EXCEPT
       !.self.experiment_finished = TRUE,
       !.self.exp_timer = TimerReset(@)]

SpeedExperiment_stop_experiment(m) ==
    LaserSwitch([Emit(m, "stop_experiment", "") EXCEPT
                   !.self.experiment_finished = TRUE,
                   !.self.exp_timer = TimerReset(@)], FALSE)

TestExperiment_stop_experiment(m) ==
    [Emit(m, "stop_experiment", "") EXCEPT
       !.self.experiment_finished = TRUE,
       !.self.exp_timer = TimerReset(@)]

SecondExperiment_stop_experiment(m) ==
    [Emit(m, "stop_experiment", "") EXCEPT !.self.experiment_finished = TRUE]

Reward_PreTraining_stop_experiment(m) ==
    [ProcessEnd(Emit(m, "stop_experiment", "")) EXCEPT
       !.self.experiment_finished = TRUE]

\* self.stop_experiment()
stop_experiment(m) ==
    CASE m.self.cls \in PoolClasses -> PoolExperiment_stop_experiment(m)
      [] m.self.cls = "TestExperiment" -> TestExperiment_stop_experiment(m)
      [] m.self.cls = "SecondExperiment" -> SecondExperiment_stop_experiment(m)
      [] m.self.cls = "Reward_PreTraining" -> Reward_PreTraining_stop_experiment(m)
      [] m.self.cls \in AngleGatedClasses -> OptogenExperiment_stop_experiment(m)
      [] m.self.cls = "SpeedExperiment" -> SpeedExperiment_stop_experiment(m)
      [] OTHER -> ExampleExperiment_stop_experiment(m)

\* A start_experiment that would reopen a finished experiment.
ExampleExperiment_start_experiment_reopening(m) ==
    LET started == ProcessStart(m)
    IN  [started EXCEPT !.self.experiment_finished = FALSE,
                        !.self.exp_timer = TimerStart(@)]

\* start_experiment of the three Example* classes.
ExampleExperiment_start_experiment(m) ==
    LET started == ProcessStart(m)
    IN  IF ~started.self.experiment_finished
        THEN [started EXCEPT !.self.exp_timer = TimerStart(@)]
        ELSE started

SimbaBehaviorPoolExperiment_start_experiment(m) ==
    LET started == PoolStart(ProcessStart(m))
    IN  IF ~started.self.experiment_finished
        THEN [started EXCEPT !.self.exp_timer = TimerStart(@)]
        ELSE started

BsoidBehaviorPoolExperiment_start_experiment(m) ==
    LET started == ProcessStart(PoolStart(m))
    IN  IF ~started.self.experiment_finished
        THEN [started EXCEPT !.self.exp_timer = TimerStart(@)]
        ELSE started

\* start_experiment of FirstExperiment, OptogenExperiment and C4TeamOptoG.
OptogenExperiment_start_experiment(m) ==
    [m EXCEPT !.self.experiment_timer = TimerStart(@)]

\* start_experiment of SpeedExperiment, TestExperiment and SecondExperiment.
SpeedExperiment_start_experiment(m) ==
    IF ~m.self.experiment_finished
    THEN [m EXCEPT !.self.exp_timer = TimerStart(@)]
    ELSE m

Reward_PreTraining_start_experiment(m) ==
    IF ~m.self.experiment_finished
    THEN ProcessStart([m EXCEPT !.self.intertrial_timer = TimerStart(@),
                                !.self.exp_timer = TimerStart(@)])
    ELSE m

start_experiment(m) ==
    CASE m.self.cls = "SimbaBehaviorPoolExperiment"
           -> SimbaBehaviorPoolExperiment_start_experiment(m)
      [] m.self.cls \in AngleGatedClasses -> OptogenExperiment_start_experiment(m)
      [] m.self.cls \in {"SpeedExperiment", "TestExperiment", "SecondExperiment"}
           -> SpeedExperiment_start_experiment(m)
      [] m.self.cls = "Reward_PreTraining" -> Reward_PreTraining_start_experiment(m)
      [] m.self.cls = "BsoidBehaviorPoolExperiment"
           -> BsoidBehaviorPoolExperiment_start_experiment(m)
      [] OTHER -> ExampleExperiment_start_experiment(m)

\* A timer check that would leave an expired experiment running.
check_exp_timer_without_stop(m) == m

check_exp_timer(m) ==
    IF ~CheckTimer(m.self.exp_timer) THEN stop_experiment(m) ELSE m

\* A cap test that would let a count pass the cap by one.
CapReached_strictly(count, cap) == count > cap

\* if self._trial_count[trial] >= cap
CapReached(count, cap) == count >= cap

\* for trial in self._trial_count: if the count hit the cap, stop_experiment()
RECURSIVE CapLoop(_, _)
CapLoop(m, trials) ==
    IF trials = <<>> THEN m
    ELSE LET trial == Head(trials)
             m1 == IF CapReached(m.self.trial_count[trial], max_reps(m.self.cls))
                   THEN stop_experiment(m) ELSE m
         IN  CapLoop(m1, Tail(trials))

\* A promotion that would not count.
Promote_without_count(m, trial) ==
    [m EXCEPT !.self.current_trial = trial,
              !.self.trial_timers[trial] = TimerReset(@)]

\* The promotion of a trial: it becomes current, its timer is reset and its
\* count incremented.
Promote(m, trial) ==
    [m EXCEPT !.self.current_trial = trial,
              !.self.trial_timers[trial] = TimerReset(@),
              !.self.trial_count[trial] = @ + 1]

\* A clearing that would start no cooldown.
Clear_without_cooldown(m, trial) ==
    [m EXCEPT !.self.current_trial = None]

\* The current trial is cleared and its cooldown timer started.
Clear(m, trial) ==
    [m EXCEPT !.self.current_trial = None,
              !.self.trial_timers[trial] = TimerStart(@)]

\* A promotion test that would ignore the trial that is current.
MayPromote_over_current(m, trial) ==
    ~CheckTimer(m.self.trial_timers[trial])

\* May a trial whose trigger is true be promoted now?
MayPromote(m, trial) ==
    /\ m.self.current_trial = None
    /\ ~CheckTimer(m.self.trial_timers[trial])

\* A loop body that would promote the current trial again while its trigger
\* stays true.
EvalTrial_repromoting(m, trial, result) ==
    IF result
    THEN IF m.self.current_trial \in {None, trial} THEN Promote(m, trial) ELSE m
    ELSE IF m.self.current_trial = trial THEN Clear(m, trial) ELSE m

\* A loop body that would start the cooldown timer of every trial whose
\* trigger is false, current or not.
EvalTrial_starting_every_cooldown(m, trial, result) ==
    IF result
    THEN IF MayPromote(m, trial) THEN Promote(m, trial) ELSE m
    ELSE IF m.self.current_trial = trial
         THEN Clear(m, trial)
         ELSE [m EXCEPT !.self.trial_timers[trial] = TimerStart(@)]

\* The body of the trial loop once the trigger has been evaluated.
EvalTrial(m, trial, result) ==
    IF result
    THEN IF MayPromote(m, trial) THEN Promote(m, trial) ELSE m
    ELSE IF m.self.current_trial = trial THEN Clear(m, trial) ELSE m

\* for trial in self._trials: evaluate the trigger on the skeleton, then the
\* body; results[trial] is what the trigger returns for this frame's skeleton.
RECURSIVE TrialLoop(_, _, _)
TrialLoop(m, trials, results) ==
    IF trials = <<>> THEN m
    ELSE LET trial == Head(trials)
             m1 == Emit(m, "trigger", trial)
         IN  TrialLoop(EvalTrial(m1, trial, results[trial]), Tail(trials), results)

\* A frame handler that would go on evaluating after the experiment finished.
ExampleExperiment_check_skeleton_unguarded(m, results) ==
    LET m1 == CapLoop(check_exp_timer(m), Trials(m.self.cls))
        m2 == TrialLoop(m1, Trials(m.self.cls), results)
        m3 == ProcessSetTrial(m2, m2.self.current_trial)
    IN  [m3 EXCEPT !.ret = "result"]

\* A frame handler that would forward the current trial only when it changed.
ExampleExperiment_check_skeleton_forwarding_changes(m, results) ==
    LET m1 == CapLoop(check_exp_timer(m), Trials(m.self.cls))
    IN  IF ~m1.self.experiment_finished
        THEN LET m2 == TrialLoop(m1, Trials(m.self.cls), results)
                 m3 == IF m2.self.current_trial # m.self.current_trial
                       THEN ProcessSetTrial(m2, m2.self.current_trial)
                       ELSE m2
             IN  [m3 EXCEPT !.ret = "result"]
        ELSE m1

ExampleExperiment_check_skeleton(m, results) ==
    LET m1 == CapLoop(check_exp_timer(m), Trials(m.self.cls))
    IN  IF ~m1.self.experiment_finished
        THEN LET m2 == TrialLoop(m1, Trials(m.self.cls), results)
                 m3 == ProcessSetTrial(m2, m2.self.current_trial)
             IN  [m3 EXCEPT !.ret = "result"]
        ELSE m1

\* A skeleton loop without the break: the result is the last skeleton's.
SkeletonLoopResult_of_last(result, skeletons) ==
    IF skeletons = <<>> THEN result ELSE skeletons[Len(skeletons)]

\* for skeleton in skeletons: result, response = trigger(skeleton); the loop
\* breaks at the first True.  `result` is the variable's value before the
\* loop; it is kept when the list is empty.
RECURSIVE SkeletonLoopResult(_, _)
SkeletonLoopResult(result, skeletons) ==
    IF skeletons = <<>> THEN result
    ELSE IF Head(skeletons) THEN TRUE
    ELSE SkeletonLoopResult(FALSE, Tail(skeletons))

\* The trigger evaluations the skeleton loop makes.
RECURSIVE SkeletonLoopTrace(_, _, _)
SkeletonLoopTrace(m, trial, skeletons) ==
    IF skeletons = <<>> THEN m
    ELSE IF Head(skeletons) THEN Emit(m, "trigger", trial)
    ELSE SkeletonLoopTrace(Emit(m, "trigger", trial), trial, Tail(skeletons))

\* The trial loop of ExampleMultipleAnimalExperiment; `result` is set to
\* False before the loop and carried from one trial to the next.
RECURSIVE MultipleAnimalTrialLoop(_, _, _, _)
MultipleAnimalTrialLoop(m, trials, result, skeletons) ==
    IF trials = <<>> THEN m
    ELSE LET trial == Head(trials)
             res == SkeletonLoopResult(result, skeletons)
             m1 == SkeletonLoopTrace(m, trial, skeletons)
         IN  MultipleAnimalTrialLoop(EvalTrial(m1, trial, res), Tail(trials),
                                     res, skeletons)

\* skeletons: for each skeleton of the frame, what the region trigger returns.
ExampleMultipleAnimalExperiment_check_skeleton(m, skeletons) ==
    LET m1 == CapLoop(check_exp_timer(m), Trials(m.self.cls))
    IN  IF ~m1.self.experiment_finished
        THEN LET m2 == MultipleAnimalTrialLoop(m1, Trials(m.self.cls), FALSE,
                                               skeletons)
                 m3 == ProcessSetTrial(m2, m2.self.current_trial)
             IN  [m3 EXCEPT !.ret = "result"]
        ELSE m1

\* frame.n: len(skeletons); frame.results[trial]: what the social trigger
\* returns on them.
ExampleSocialInteractionExperiment_check_skeleton(m, frame) ==
    LET m1 == CapLoop(check_exp_timer(m), Trials(m.self.cls))
    IN  IF ~m1.self.experiment_finished
        THEN LET m2 == IF frame.n >= min_animals
                       THEN LET m3 == TrialLoop(m1, Trials(m.self.cls),
                                                frame.results)
                            IN  ProcessSetTrial(m3, m3.self.current_trial)
                       ELSE m1
             IN  [m2 EXCEPT !.ret = "result"]
        ELSE m1

\* results[trial]: whether the pool trigger reports the behaviour (a result
\* not yet available is a False).
SimbaBehaviorPoolExperiment_check_skeleton(m, results) ==
    LET m1 == CapLoop(check_exp_timer(m), Trials(m.self.cls))
    IN  IF ~m1.self.experiment_finished
        THEN LET m2 == TrialLoop(m1, Trials(m.self.cls), results)
             IN  ProcessSetTrial(m2, m2.self.current_trial)
        ELSE m1

\* The method ends with "return result, response": both names are bound only
\* in the trial loop, so the return raises UnboundLocalError when the loop
\* was skipped.
BsoidBehaviorPoolExperiment_check_skeleton(m, results) ==
    LET m1 == CapLoop(check_exp_timer(m), Trials(m.self.cls))
    IN  IF ~m1.self.experiment_finished
        THEN LET m2 == TrialLoop(m1, Trials(m.self.cls), results)
                 m3 == ProcessSetTrial(m2, m2.self.current_trial)
             IN  [m3 EXCEPT !.ret = "result"]
        ELSE [m1 EXCEPT !.ret = "UnboundLocalError"]

\* ------------------------------------------------ angle-gated controllers
AngleGatedInit(cls) ==
    [cls |-> cls,
     experiment_finished |-> FALSE,
     intertrial_timer |-> Timer(IF cls = "C4TeamOptoG" THEN 0 ELSE IntertrialSeconds),
     experiment_timer |-> Timer(AngleExpTimerSeconds),
     event |-> FALSE,
     event_start |-> NoTime,
     results |-> <<>>,
     max_trial_time |-> IF cls = "C4TeamOptoG" THEN C4MaxTrialTime ELSE MaxTrialTime,
     min_trial_time |-> IF cls = "C4TeamOptoG" THEN 0 ELSE MinTrialTime,
     max_total_time |-> MaxTotalTime,
     total_time |-> 0,
     trial_time |-> 0]

\* The laser command of a stimulation: laser_switch in OptogenExperiment,
\* serial_laser_switch in C4TeamOptoG, commented out in FirstExperiment.
StimulationLaser(m, state) ==
    IF m.self.cls = "FirstExperiment" THEN m ELSE LaserSwitch(m, state)

\* A start of stimulation that would send no laser command.
StartStimulation_without_laser(m) ==
    [m EXCEPT !.self.event = TRUE,
              !.self.event_start = now,
              !.self.intertrial_timer = TimerReset(@)]

\* "Starting Stimulation"
StartStimulation(m) ==
    LET on == StimulationLaser([m EXCEPT !.self.event = TRUE], TRUE)
    IN  [on EXCEPT !.self.event_start = now,
                   !.self.intertrial_timer = TimerReset(@)]

\* An end of stimulation that would start no inter-trial time.
EndStimulation_without_cooldown(m) ==
    LET off == StimulationLaser([m EXCEPT !.self.event = FALSE], FALSE)
        trial_time == now - m.self.event_start
    IN  [off EXCEPT !.self.total_time = @ + trial_time,
                    !.self.results = Append(@, trial_time)]

\* An end of stimulation that would record the interval in _results only.
EndStimulation_without_total(m) ==
    LET off == StimulationLaser([m EXCEPT !.self.event = FALSE], FALSE)
        trial_time == now - m.self.event_start
    IN  [off EXCEPT !.self.results = Append(@, trial_time),
                    !.self.intertrial_timer = TimerStart(@)]

\* "Ending Stimulation": on both off paths
EndStimulation(m) ==
    LET off == StimulationLaser([m EXCEPT !.self.event = FALSE], FALSE)
        trial_time == now - m.self.event_start
    IN  [off EXCEPT !.self.total_time = @ + trial_time,
                    !.self.results = Append(@, trial_time),
                    !.self.intertrial_timer = TimerStart(@)]

\* A frame handler that would end a stimulation as soon as the angle leaves
\* the window: the inter-trial timer holds back only the start of a
\* stimulation, and there is no minimum on-time.
OptogenExperiment_check_skeleton_without_min_time(m, in_window) ==
    LET s == m.self
        m1 == IF CheckTimer(s.experiment_timer)
              THEN IF s.total_time >= s.max_total_time
                   THEN stop_experiment(m)
                   ELSE IF in_window
                        THEN IF ~s.event
                             THEN IF ~CheckTimer(s.intertrial_timer)
                                  THEN StartStimulation(m)
                                  ELSE m
                             ELSE IF now - s.event_start <= s.max_trial_time
                                  THEN m
                                  ELSE EndStimulation(m)
                        ELSE IF s.event THEN EndStimulation(m) ELSE m
              ELSE stop_experiment(m)
    IN  [m1 EXCEPT !.ret = "event"]

\* A frame handler that would not test the cumulative stimulation time.
OptogenExperiment_check_skeleton_without_cap(m, in_window) ==
    LET s == m.self
        m1 == IF CheckTimer(s.experiment_timer)
              THEN IF ~CheckTimer(s.intertrial_timer)
                   THEN IF in_window
                        THEN IF ~s.event
                             THEN StartStimulation(m)
                             ELSE IF now - s.event_start <= s.max_trial_time
                                  THEN m
                                  ELSE EndStimulation(m)
                        ELSE IF s.event
                             THEN IF now - s.event_start < s.min_trial_time
                                  THEN m
                                  ELSE EndStimulation(m)
                             ELSE m
                   ELSE m
              ELSE stop_experiment(m)
    IN  [m1 EXCEPT !.ret = "event"]

\* A frame handler that would turn a stimulation off after the minimum
\* on-time although the angle is still inside the window.
OptogenExperiment_check_skeleton_off_early(m, in_window) ==
    LET s == m.self
        m1 == IF CheckTimer(s.experiment_timer)
              THEN IF s.total_time >= s.max_total_time
                   THEN stop_experiment(m)
                   ELSE IF ~CheckTimer(s.intertrial_timer)
                        THEN IF in_window
                             THEN IF ~s.event
                                  THEN StartStimulation(m)
                                  ELSE IF now - s.event_start <= s.min_trial_time
                                       THEN m
                                       ELSE EndStimulation(m)
                             ELSE IF s.event
                                  THEN IF now - s.event_start < s.min_trial_time
                                       THEN m
                                       ELSE EndStimulation(m)
                                  ELSE m
                        ELSE m
              ELSE stop_experiment(m)
    IN  [m1 EXCEPT !.ret = "event"]

\* in_window: self._start_angle <= angle_point <= self._end_angle
OptogenExperiment_check_skeleton(m, in_window) ==
    LET s == m.self
        m1 == IF CheckTimer(s.experiment_timer)
              THEN IF s.total_time >= s.max_total_time
                   THEN stop_experiment(m)
                   ELSE IF ~CheckTimer(s.intertrial_timer)
                        THEN IF in_window
                             THEN IF ~s.event
                                  THEN StartStimulation(m)
                                  ELSE IF now - s.event_start <= s.max_trial_time
                                       THEN m
                                       ELSE EndStimulation(m)
                             ELSE IF s.event
                                  THEN IF now - s.event_start < s.min_trial_time
                                       THEN m
                                       ELSE EndStimulation(m)
                                  ELSE m
                        ELSE m
              ELSE stop_experiment(m)
    IN  [m1 EXCEPT !.ret = "event"]

\* -------------------------------------------------------- SpeedExperiment
SpeedExperimentInit ==
    [cls |-> "SpeedExperiment",
     experiment_finished |-> FALSE,
     event |-> None,
     current_trial |-> None,
     event_count |-> 0,
     exp_timer |-> Timer(ExpTimerSeconds)]

\* result: what the speed trigger returns for the frame's skeleton.
SpeedExperiment_check_skeleton(m, result) ==
    LET m1 == check_exp_timer(m)
    IN  IF ~m1.self.experiment_finished
        THEN LET m0 == Emit(m1, "trigger", "")
                 m2 == IF result
                       THEN [LaserSwitch(m0, TRUE) EXCEPT !.self.event_count = @ + 1]
                       ELSE LaserSwitch(m0, FALSE)
             IN  [m2 EXCEPT !.ret = "result"]
        ELSE m1

\* --------------------------------------------------------- TestExperiment
\* _event is None, True or False; _last_frame_skeleton is kept as the frame
\* it was copied from.
TestExperimentInit ==
    [cls |-> "TestExperiment",
     experiment_finished |-> FALSE,
     exp_timer |-> Timer(TestExpTimerSeconds),
     event |-> None,
     current_trial |-> None,
     total_stim_time |-> 0,
     event_start |-> 0,
     last_frame_skeleton |-> 0]

\* frame.id: the skeleton; frame.still: sum(self._distance <=
\* self._DISTANCE_THRESHOLD), the number of body parts that moved at most the
\* threshold since the last frame.
TestExperiment_check_skeleton(m, frame) ==
    LET s == m.self
        m1 == IF s.total_stim_time >= MAX_TOTAL_STIM_TIME
              THEN stop_experiment(m)
              ELSE IF frame.still >= BP_THRESHOLD
                   THEN IF s.event = "True"
                        THEN IF s.total_stim_time + (now - s.event_start)
                                   >= MAX_TOTAL_STIM_TIME
                             THEN stop_experiment(m)
                             ELSE m
                        ELSE IF s.event = "False"
                             THEN [m EXCEPT !.self.event = "True",
                                            !.self.event_start = now]
                             ELSE m
                   ELSE IF s.event = "True"
                        THEN [m EXCEPT !.self.event = "False",
                                       !.self.total_stim_time =
                                           @ + (now - s.event_start)]
                        ELSE m
    IN  [m1 EXCEPT !.self.last_frame_skeleton = frame.id, !.ret = "event"]

\* ------------------------------------------------------- SecondExperiment
SecondExperimentInit ==
    [cls |-> "SecondExperiment",
     experiment_finished |-> FALSE,
     event |-> None,
     stage |-> 3,
     count |-> [t \in TrialNames("SecondExperiment") |-> 0],
     exp_timer |-> Timer(ExpTimerSeconds)]

\* res_func: final_result = all([res_roi, res_dir])
res_func(roi, direct) == roi /\ direct

\* The body of SecondExperiment's trial loop.
SecondExperiment_EvalTrial(m, trial, result) ==
    IF m.self.event = None
    THEN IF result
         THEN [m EXCEPT !.self.event = trial, !.self.count[trial] = @ + 1]
         ELSE m
    ELSE IF ~result /\ m.self.event = trial
         THEN [m EXCEPT !.self.event = None]
         ELSE IF result /\ m.self.event # trial
              THEN [m EXCEPT !.self.event = trial, !.self.count[trial] = @ + 1]
              ELSE m

RECURSIVE SecondExperiment_TrialLoop(_, _, _)
SecondExperiment_TrialLoop(m, trials, frame) ==
    IF trials = <<>> THEN m
    ELSE LET trial == Head(trials)
             result == res_func(frame[trial].roi, frame[trial].direct)
             m1 == Emit(m, "trigger", trial)
         IN  SecondExperiment_TrialLoop(
                 SecondExperiment_EvalTrial(m1, trial, result), Tail(trials), frame)

\* frame[trial]: what the region and the direction trigger of the trial return.
SecondExperiment_check_skeleton(m, frame) ==
    LET m1 == SecondExperiment_TrialLoop(m, Trials(m.self.cls), frame)
        m2 == Emit(m1, "show_visual_stim_img", m1.self.event)
        m3 == IF \A t \in TrialNames(m.self.cls) : m2.self.count[t] >= ExpCompletion
              THEN stop_experiment(m2)
              ELSE m2
    IN  check_exp_timer(m3)

\* ----------------------------------------------------- Reward_PreTraining
\* _trials_list and _iti_list are iterators over lists drawn at random in
\* __init__: they are kept as the number of items left, an item being drawn
\* when it is taken.
Reward_PreTrainingInit ==
    [cls |-> "Reward_PreTraining",
     experiment_finished |-> FALSE,
     trials_list |-> NumTrials,
     iti_list |-> NumTrials,
     iti_duration |-> ItiDuration,
     intertrial_timer |-> Timer(ItiDuration),
     chosen_trial |-> None,
     exp_timer |-> Timer(AngleExpTimerSeconds),
     trial_counter |-> 0,
     print_check |-> FALSE]

\* SimpleProtocolProcess is not among the sources.  It is modelled as the
\* worker the controller sees: set_trial(trial) hands it a trial; it takes
\* the trial up on its own (get_status() reports it active from then on) and
\* finishes it on its own; get_result() returns None until then, and the
\* result once, after which no trial is active.
SimpleProcessSetTrial(m, trial) ==
    Emit([m EXCEPT !.sink.process_trial = trial,
                   !.sink.protocol = IF trial = "False" THEN @ ELSE "queued"],
         "process.set_trial", trial)

SimpleProcessStatus(m) == m.sink.protocol \in {"active", "done"}

SimpleProcessGetResult(m) ==
    IF m.sink.protocol = "done"
    THEN [m EXCEPT !.sink.protocol = "none", !.sink.process_trial = None]
    ELSE m

\* The first branch: a trial is active; when its result is there a new
\* interval is taken from _iti_list (False, i.e. 0, once the list is used up).
Reward_TakeResult(m, iti) ==
    IF m.sink.protocol = "done"
    THEN LET m1 == SimpleProcessGetResult(m)
             duration == IF m.self.iti_list > 0 THEN iti ELSE 0
         IN  [m1 EXCEPT !.self.iti_list = IF @ > 0 THEN @ - 1 ELSE 0,
                        !.self.iti_duration = duration,
                        !.self.intertrial_timer = Timer(duration)]
    ELSE m

\* A third branch that would request a stimulation whether or not a trial
\* is already chosen.
Reward_NextTrial_unconditionally(m) ==
    LET m0 == [m EXCEPT !.self.print_check = FALSE]
        chosen == IF m0.self.trials_list > 0 THEN "Pretraining" ELSE "False"
        m1 == [m0 EXCEPT !.self.chosen_trial = chosen,
                         !.self.trials_list = IF @ > 0 THEN @ - 1 ELSE 0]
        m2 == IF chosen = "False" THEN stop_experiment(m1) ELSE m1
        m3 == [m2 EXCEPT !.self.trial_counter = @ + 1]
    IN  SimpleProcessSetTrial(m3, chosen)

\* The third branch: the next trial is chosen and handed to the process.
Reward_NextTrial(m) ==
    LET m0 == [m EXCEPT !.self.print_check = FALSE]
    IN  IF m0.self.chosen_trial = None
        THEN LET chosen == IF m0.self.trials_list > 0 THEN "Pretraining" ELSE "False"
                 m1 == [m0 EXCEPT !.self.chosen_trial = chosen,
                                  !.self.trials_list = IF @ > 0 THEN @ - 1 ELSE 0]
                 m2 == IF chosen = "False" THEN stop_experiment(m1) ELSE m1
                 m3 == [m2 EXCEPT !.self.trial_counter = @ + 1]
             IN  SimpleProcessSetTrial(m3, chosen)
        ELSE m0

check_end_time(m) ==
    IF ~CheckTimer(m.self.exp_timer) THEN stop_experiment(m) ELSE m

\* frame.reward: check_triggers(skeleton), the nose is in the reward region;
\* frame.iti: the interval next(self._iti_list) yields, if one is taken.
Reward_PreTraining_check_skeleton(m0, frame) ==
    LET m == Emit(m0, "process.get_status",
                  IF SimpleProcessStatus(m0) THEN "True" ELSE "False")
        m1 == IF SimpleProcessStatus(m)
              THEN Reward_TakeResult(m, frame.iti)
              ELSE IF frame.reward /\ ~CheckTimer(m.self.intertrial_timer)
                   THEN [Emit(m, "trigger", "region") EXCEPT
                           !.self.intertrial_timer = TimerStart(@),
                           !.self.print_check = TRUE,
                           !.self.chosen_trial = None]
                   ELSE IF ~CheckTimer(m.self.intertrial_timer)
                        THEN Reward_NextTrial(Emit(m, "trigger", "region"))
                        ELSE Emit(m, "trigger", "region")
    IN  check_end_time(m1)

\* ------------------------------------------------------------------- Init
\* The object a class's __init__ builds.
New(cls) ==
    CASE cls \in TrialTableClasses -> TrialTableInit(cls)
      [] cls \in AngleGatedClasses -> AngleGatedInit(cls)
      [] cls = "SpeedExperiment" -> SpeedExperimentInit
      [] cls = "TestExperiment" -> TestExperimentInit
      [] cls = "SecondExperiment" -> SecondExperimentInit
      [] cls = "Reward_PreTraining" -> Reward_PreTrainingInit

\* The actuators after __init__: C4TeamOptoG's ends with
\* serial_laser_switch(self._ser, False).
SinkInit(cls) ==
    [laser |-> IF cls = "C4TeamOptoG" THEN "off" ELSE "unset",
     process |-> "idle", process_trial |-> None, protocol |-> "none",
     pool |-> "idle"]

NoInput == <<>>

\* The record of `call` when the last step was no call of the driver.
NoCall(op) == [op |-> op, pre |-> self, input |-> NoInput, trace |-> <<>>,
               ret |-> None]

\* A freshly constructed controller of one of the classes.
Constructed(classes) ==
    /\ \E cls \in classes : self = New(cls) /\ sink = SinkInit(cls)
    /\ now = 0
    /\ call = NoCall("init")
    /\ stop_calls = [by_driver |-> FALSE, in_frames |-> 0]

Init == Constructed(Classes)

Min(a, b) == IF a <= b THEN a ELSE b

\* The driver's call returning machine m.
Returned(op, input, m) ==
    /\ self' = m.self
    /\ sink' = m.sink
    /\ call' = [op |-> op, pre |-> self, input |-> input,
                trace |-> m.trace, ret |-> m.ret]
    /\ stop_calls' =
         LET n == Count(m.trace, "stop_experiment")
         IN  IF op = "check_skeleton"
             THEN [stop_calls EXCEPT !.in_frames = Min(@ + n, MaxStopCalls)]
             ELSE [stop_calls EXCEPT !.by_driver = @ \/ n > 0]
    /\ UNCHANGED now

\* get_trial: "Check which trial is going on right now".  The pool
\* experiments, the angle-gated controllers and SecondExperiment return
\* self._event, Reward_PreTraining self._chosen_trial, the others
\* self._current_trial.
get_trial(s) ==
    CASE s.cls \in PoolClasses \cup AngleGatedClasses \cup {"SecondExperiment"}
           -> s.event
      [] s.cls = "Reward_PreTraining" -> s.chosen_trial
      [] OTHER -> s.current_trial

\* ---------------------------------------------------------------- actions
Tick ==
    /\ now < MaxTime
    /\ now' = now + 1
    /\ call' = NoCall("tick")
    /\ UNCHANGED <<self, sink, stop_calls>>

StartExperiment == Returned("start_experiment", NoInput, start_experiment(Machine))

StopExperiment == Returned("stop_experiment", NoInput, stop_experiment(Machine))

GetTrial == Returned("get_trial", NoInput, [Machine EXCEPT !.ret = get_trial(self)])

ExampleExperiment_Frame ==
    /\ self.cls = "ExampleExperiment"
    /\ \E results \in [TrialNames(self.cls) -> BOOLEAN] :
         Returned("check_skeleton", results,
                  ExampleExperiment_check_skeleton(Machine, results))

\* The lists of skeletons of a frame, as the trigger results they produce.
SkeletonLists == UNION {[1..n -> BOOLEAN] : n \in 0..MaxSkeletons}

ExampleMultipleAnimalExperiment_Frame ==
    /\ self.cls = "ExampleMultipleAnimalExperiment"
    /\ \E skeletons \in SkeletonLists :
         Returned("check_skeleton", skeletons,
                  ExampleMultipleAnimalExperiment_check_skeleton(Machine, skeletons))

ExampleSocialInteractionExperiment_Frame ==
    /\ self.cls = "ExampleSocialInteractionExperiment"
    /\ \E n \in 0..MaxSkeletons, results \in [TrialNames(self.cls) -> BOOLEAN] :
         LET frame == [n |-> n, results |-> results]
         IN  Returned("check_skeleton", frame,
                      ExampleSocialInteractionExperiment_check_skeleton(Machine, frame))

SimbaBehaviorPoolExperiment_Frame ==
    /\ self.cls = "SimbaBehaviorPoolExperiment"
    /\ \E results \in [TrialNames(self.cls) -> BOOLEAN] :
         Returned("check_skeleton", results,
                  SimbaBehaviorPoolExperiment_check_skeleton(Machine, results))

BsoidBehaviorPoolExperiment_Frame ==
    /\ self.cls = "BsoidBehaviorPoolExperiment"
    /\ \E results \in [TrialNames(self.cls) -> BOOLEAN] :
         Returned("check_skeleton", results,
                  BsoidBehaviorPoolExperiment_check_skeleton(Machine, results))

AngleGated_Frame ==
    /\ self.cls \in AngleGatedClasses
    /\ \E in_window \in BOOLEAN :
         LET m == OptogenExperiment_check_skeleton(Machine, in_window)
         IN  /\ Len(m.self.results) <= MaxResults
             /\ Returned("check_skeleton", in_window, m)

SpeedExperiment_Frame ==
    /\ self.cls = "SpeedExperiment"
    /\ \E result \in BOOLEAN :
         LET m == SpeedExperiment_check_skeleton(Machine, result)
         IN  /\ m.self.event_count <= MaxEvents
             /\ Returned("check_skeleton", result, m)

\* The frames of TestExperiment: two skeletons, and any number of body
\* parts within the distance threshold of the last frame's.
TestExperiment_Frame ==
    /\ self.cls = "TestExperiment"
    /\ \E id \in 1..2, still \in {0, BP_THRESHOLD - 1, BP_THRESHOLD, NumBodyParts} :
         LET frame == [id |-> id, still |-> still]
         IN  Returned("check_skeleton", frame,
                      TestExperiment_check_skeleton(Machine, frame))

SecondExperiment_Frame ==
    /\ self.cls = "SecondExperiment"
    /\ \E frame \in [TrialNames(self.cls) -> [roi : BOOLEAN, direct : BOOLEAN]] :
         LET m == SecondExperiment_check_skeleton(Machine, frame)
         IN  /\ \A t \in TrialNames(self.cls) : m.self.count[t] <= MaxCount
             /\ Returned("check_skeleton", frame, m)

Reward_PreTraining_Frame ==
    /\ self.cls = "Reward_PreTraining"
    /\ \E reward \in BOOLEAN, iti \in 0..MaxIti :
         LET frame == [reward |-> reward, iti |-> iti]
             m == Reward_PreTraining_check_skeleton(Machine, frame)
         IN  /\ m.self.trial_counter <= MaxTrialCounter
             /\ Returned("check_skeleton", frame, m)

\* The stimulus process takes up the trial it was handed.
ProcessTakesTrial ==
    /\ self.cls = "Reward_PreTraining"
    /\ sink.process = "running"
    /\ sink.protocol = "queued"
    /\ sink' = [sink EXCEPT !.protocol = "active"]
    /\ call' = NoCall("process")
    /\ UNCHANGED <<self, now, stop_calls>>

\* The stimulus process finishes its trial and queues the result.
ProcessFinishesTrial ==
    /\ self.cls = "Reward_PreTraining"
    /\ sink.process = "running"
    /\ sink.protocol = "active"
    /\ sink' = [sink EXCEPT !.protocol = "done"]
    /\ call' = NoCall("process")
    /\ UNCHANGED <<self, now, stop_calls>>

Next ==
    \/ Tick
    \/ TestExperiment_Frame
    \/ SecondExperiment_Frame
    \/ Reward_PreTraining_Frame
    \/ ProcessTakesTrial
    \/ ProcessFinishesTrial
    \/ AngleGated_Frame
    \/ SpeedExperiment_Frame
    \/ StartExperiment
    \/ StopExperiment
    \/ GetTrial
    \/ ExampleExperiment_Frame
    \/ ExampleMultipleAnimalExperiment_Frame
    \/ ExampleSocialInteractionExperiment_Frame
    \/ SimbaBehaviorPoolExperiment_Frame
    \/ BsoidBehaviorPoolExperiment_Frame

Spec == Init /\ [][Next]_vars

\* The trial-table controllers alone.
TrialTableConstructed == Constructed(TrialTableClasses)

TrialTableNext ==
    \/ Tick
    \/ StartExperiment
    \/ StopExperiment
    \/ GetTrial
    \/ ExampleExperiment_Frame
    \/ ExampleMultipleAnimalExperiment_Frame
    \/ ExampleSocialInteractionExperiment_Frame
    \/ SimbaBehaviorPoolExperiment_Frame
    \/ BsoidBehaviorPoolExperiment_Frame

TrialTableSpec == TrialTableConstructed /\ [][TrialTableNext]_vars

\* The angle-gated controllers alone.
AngleGatedConstructed == Constructed(AngleGatedClasses)

AngleGatedNext ==
    \/ Tick
    \/ StartExperiment
    \/ StopExperiment
    \/ GetTrial
    \/ AngleGated_Frame

AngleGatedSpec == AngleGatedConstructed /\ [][AngleGatedNext]_vars

\* ================================================================= claims
Frame == call.op = "check_skeleton"

LaserClasses == {"OptogenExperiment", "C4TeamOptoG"}

\* The last stop_experiment / trigger / set_trial ... of the call just made.
Calls(name) == Count(call.trace, name)

LaserOnCalls ==
    Cardinality({i \in 1..Len(call.trace) :
                   call.trace[i] = Ev("laser_switch", "True")})

LaserOffCalls ==
    Cardinality({i \in 1..Len(call.trace) :
                   call.trace[i] = Ev("laser_switch", "False")})

\* ---- C1
\* C1: in OptogenExperiment and C4TeamOptoG, whenever experiment_finished is
\* true the laser is not on (the last laser command, if any, was 'off').
C1_LaserOffWhenFinished ==
    (self.cls \in LaserClasses /\ self.experiment_finished) => sink.laser # "on"

\* ---- C2
\* C2: in the angle-gated controllers, a check_skeleton call made when
\* experiment_finished is already true starts no stimulation: it does not set
\* _event from False to True and issues no laser-on command.
C2_NoStimulationAfterStop ==
    (self.cls \in AngleGatedClasses /\ Frame /\ call.pre.experiment_finished)
       => /\ ~(~call.pre.event /\ self.event)
          /\ LaserOnCalls = 0

\* ---- C3
\* C3: in the trial-table controllers, a check_skeleton call made when
\* experiment_finished is already true leaves _current_trial, every
\* _trial_count entry and every per-trial timer unchanged and issues no
\* set_trial.
C3_FinishedFrameChangesNothing ==
    (self.cls \in TrialTableClasses /\ Frame /\ call.pre.experiment_finished)
       => /\ self.current_trial = call.pre.current_trial
          /\ self.trial_count = call.pre.trial_count
          /\ self.trial_timers = call.pre.trial_timers
          /\ Calls("process.set_trial") = 0

\* A frame on a finished ExampleExperiment whose first trigger would have
\* promoted its trial: no trial current, its cooldown timer not running.
C3_Witness ==
    /\ self.cls = "ExampleExperiment"
    /\ Frame
    /\ call.pre.experiment_finished
    /\ call.pre.current_trial = None
    /\ call.input["Greenbar_whiteback"]
    /\ ~CheckTimer(call.pre.trial_timers["Greenbar_whiteback"])
    /\ call.pre.trial_count["Greenbar_whiteback"] < MaxReps

\* ---- C4
\* C4: in every controller, no call of the driver takes experiment_finished
\* from true back to false.
C4_FinishedIsMonotonic ==
    call.pre.experiment_finished => self.experiment_finished

\* start_experiment called on a finished experiment.
C4_Witness ==
    /\ call.op = "start_experiment"
    /\ call.pre.experiment_finished
    /\ self.experiment_finished

\* ---- C5
\* The position of a trial in the trial table.
TrialIndex(cls, trial) == CHOOSE i \in 1..Len(Trials(cls)) : Trials(cls)[i] = trial

\* Trial b was promoted, counted or had its timer touched by the call just made.
Touched(b) ==
    \/ self.current_trial = b /\ call.pre.current_trial # b
    \/ self.trial_count[b] # call.pre.trial_count[b]
    \/ self.trial_timers[b] # call.pre.trial_timers[b]

\* C5: in the trial-table controllers at most one trial is current, and a
\* check_skeleton call made while trial A is current touches a different
\* trial B (promotion, count, cooldown timer) only if A's trigger was false in
\* that call and A comes before B in the table, i.e. only after A was cleared.
C5_MutualExclusion ==
    self.cls \in TrialTableClasses
       => /\ self.current_trial \in TrialNames(self.cls) \cup {None}
          /\ (Frame /\ call.pre.current_trial # None)
                => \A b \in TrialNames(self.cls) \ {call.pre.current_trial} :
                      Touched(b)
                        => /\ ~call.input[call.pre.current_trial]
                           /\ TrialIndex(self.cls, call.pre.current_trial)
                                < TrialIndex(self.cls, b)

\* Greenbar is current, both triggers are true and Bluebar's cooldown timer is
\* not running: Bluebar is not promoted.
C5_Witness ==
    /\ self.cls = "ExampleExperiment"
    /\ Frame
    /\ call.pre.current_trial = "Greenbar_whiteback"
    /\ call.input["Greenbar_whiteback"] /\ call.input["Bluebar_whiteback"]
    /\ ~CheckTimer(call.pre.trial_timers["Bluebar_whiteback"])
    /\ ~call.pre.experiment_finished /\ ~self.experiment_finished
    /\ self.current_trial = "Greenbar_whiteback"

\* ---- C6
\* The call just made promoted trial t.
Promoted(t) ==
    Frame /\ call.pre.current_trial # t /\ self.current_trial = t

\* C6: in the trial-table controllers, every call of the driver leaves
\* _trial_count[t] unchanged, except a check_skeleton call that promotes t,
\* which adds exactly 1.
C6_CountsFollowPromotions ==
    self.cls \in TrialTableClasses
       => \A t \in TrialNames(self.cls) :
             self.trial_count[t] =
                call.pre.trial_count[t] + (IF Promoted(t) THEN 1 ELSE 0)

\* A second promotion of a trial.
C6_Witness ==
    /\ self.cls \in TrialTableClasses
    /\ \E t \in TrialNames(self.cls) :
          Promoted(t) /\ call.pre.trial_count[t] = 1 /\ self.trial_count[t] = 2

\* ---- C7
\* C7: in the trial-table controllers no trial's count exceeds the class's
\* repetition cap.
C7_CountWithinCap ==
    self.cls \in TrialTableClasses
       => \A t \in TrialNames(self.cls) : self.trial_count[t] <= max_reps(self.cls)

\* A trial at the cap, the experiment finished by it, and its trigger true
\* again on a later frame.
C7_Witness ==
    /\ self.cls = "ExampleExperiment"
    /\ Frame
    /\ call.input["Bluebar_whiteback"]
    /\ call.pre.current_trial = None
    /\ self.trial_count["Bluebar_whiteback"] = max_reps(self.cls)

\* ---- C8
\* C8: in the trial-table controllers, when a trial's count has reached the
\* cap and the driver only feeds frames (it never calls stop_experiment
\* itself), stop_experiment is called at most once over the whole run.
C8_StoppedOnce ==
    (/\ self.cls \in TrialTableClasses
     /\ ~stop_calls.by_driver
     /\ \E t \in TrialNames(self.cls) :
           CapReached(self.trial_count[t], max_reps(self.cls)))
       => stop_calls.in_frames <= 1

\* ---- C9
\* The classes whose stop_experiment has an actuator to switch off or a
\* worker to end.
DeactivatingClasses ==
    TrialTableClasses \cup LaserClasses \cup {"SpeedExperiment", "Reward_PreTraining"}

\* experiment_finished, the current trial or event, the counters and the
\* accumulated times of an object.
Outcome(obj) ==
    CASE obj.cls \in TrialTableClasses
           -> <<obj.experiment_finished, obj.current_trial, obj.trial_count>>
      [] obj.cls \in AngleGatedClasses
           -> <<obj.experiment_finished, obj.event, obj.total_time, obj.results>>
      [] obj.cls = "SpeedExperiment"
           -> <<obj.experiment_finished, obj.event_count>>
      [] obj.cls = "TestExperiment"
           -> <<obj.experiment_finished, obj.event, obj.total_stim_time>>
      [] obj.cls = "SecondExperiment"
           -> <<obj.experiment_finished, obj.event, obj.count>>
      [] obj.cls = "Reward_PreTraining"
           -> <<obj.experiment_finished, obj.chosen_trial, obj.trial_counter>>

\* C9: in every controller, a stop_experiment call issues the deactivate/end
\* side effect, and made on an experiment that is already finished it leaves
\* the controller's state as it was.
C9_StopIsIdempotent ==
    call.op = "stop_experiment"
       => /\ self.experiment_finished
          /\ call.pre.experiment_finished => Outcome(self) = Outcome(call.pre)
          /\ self.cls \in DeactivatingClasses
                => Calls("process.end") + LaserOffCalls >= 1

\* ---- C10
\* The experiment timer was started and had expired when the call was made.
ExpTimerExpired(obj) ==
    obj.exp_timer.start_time # NoTime /\ ~CheckTimer(obj.exp_timer)

\* C10: in the trial-table controllers and SpeedExperiment, a check_skeleton
\* call made when the started experiment timer has expired calls
\* stop_experiment, evaluates no trigger, promotes or clears no trial, changes
\* no count and sends the sink nothing but stop_experiment's own commands.
C10_ExpiredFrameOnlyStops ==
    (/\ self.cls \in TrialTableClasses \cup {"SpeedExperiment"}
     /\ Frame
     /\ ExpTimerExpired(call.pre))
       => /\ self.experiment_finished
          /\ Calls("stop_experiment") >= 1
          /\ Calls("trigger") = 0
          /\ Calls("process.set_trial") = 0
          /\ LaserOnCalls = 0
          /\ LaserOffCalls = (IF self.cls = "SpeedExperiment"
                               THEN Calls("stop_experiment") ELSE 0)
          /\ self.cls \in TrialTableClasses
                => /\ self.current_trial = call.pre.current_trial
                   /\ self.trial_count = call.pre.trial_count
          /\ self.cls = "SpeedExperiment"
                => self.event_count = call.pre.event_count

\* The timer expires while Greenbar is current and not yet stopped, and the
\* frame's trigger result is false: the trial would have been cleared.
C10_Witness ==
    /\ self.cls = "ExampleExperiment"
    /\ Frame
    /\ ExpTimerExpired(call.pre)
    /\ ~call.pre.experiment_finished
    /\ call.pre.current_trial = "Greenbar_whiteback"
    /\ ~call.input["Greenbar_whiteback"]
    /\ self.experiment_finished

\* ---- C11
\* C11: in TestExperiment, a check_skeleton call made when the started
\* experiment timer has expired leaves the experiment finished, whatever the
\* skeleton.
C11_TestStopsAfterMaxDuration ==
    (self.cls = "TestExperiment" /\ Frame /\ ExpTimerExpired(call.pre))
       => self.experiment_finished

\* ---- C12
\* C12: in ExampleExperiment, a check_skeleton call that evaluates both
\* triggers true while no trial is current and neither cooldown timer is
\* running makes Greenbar_whiteback current and adds 1 to its count, and
\* leaves the count and the timer of Bluebar_whiteback as they were.
C12_FirstTrialWins ==
    (/\ self.cls = "ExampleExperiment"
     /\ Frame
     /\ Calls("trigger") = 2
     /\ call.pre.current_trial = None
     /\ \A t \in TrialNames(self.cls) :
           call.input[t] /\ ~CheckTimer(call.pre.trial_timers[t]))
       => /\ self.current_trial = "Greenbar_whiteback"
          /\ self.trial_count["Greenbar_whiteback"]
                = call.pre.trial_count["Greenbar_whiteback"] + 1
          /\ self.trial_count["Bluebar_whiteback"]
                = call.pre.trial_count["Bluebar_whiteback"]
          /\ self.trial_timers["Bluebar_whiteback"]
                = call.pre.trial_timers["Bluebar_whiteback"]

\* Both triggers true with no trial current, after each trial has been
\* promoted and cleared once and both cooldowns have run out.
C12_Witness ==
    /\ self.cls = "ExampleExperiment"
    /\ Frame
    /\ Calls("trigger") = 2
    /\ call.pre.current_trial = None
    /\ \A t \in TrialNames(self.cls) :
          /\ call.input[t]
          /\ call.pre.trial_timers[t].start_time # NoTime
          /\ ~CheckTimer(call.pre.trial_timers[t])
    /\ self.current_trial = "Greenbar_whiteback"

\* ---- C13
\* The trigger of trial t evaluated true on the frame of the call just made:
\* on one of the skeletons in ExampleMultipleAnimalExperiment, on at least
\* _min_animals skeletons in ExampleSocialInteractionExperiment.
TriggerTrue(t) ==
    CASE self.cls = "ExampleMultipleAnimalExperiment"
           -> \E i \in 1..Len(call.input) : call.input[i]
      [] self.cls = "ExampleSocialInteractionExperiment"
           -> call.input.n >= min_animals /\ call.input.results[t]
      [] OTHER -> call.input[t]

\* The call just made cleared trial t.
Cleared(t) ==
    Frame /\ call.pre.current_trial = t /\ self.current_trial # t

\* C13: in the trial-table controllers, a trial is cleared only by a frame in
\* which its trigger is false, and its cooldown timer is then started at that
\* time; a trial is promoted only by a frame in which its trigger is true, its
\* cooldown timer is not running and no trial is current (or the current one
\* has just been cleared); and no other call touches a cooldown timer, so a
\* cleared trial is not promoted before its cooldown has elapsed.
C13_RefractoryPeriod ==
    self.cls \in TrialTableClasses
       => \A t \in TrialNames(self.cls) :
             /\ Cleared(t)
                  => ~TriggerTrue(t) /\ self.trial_timers[t].start_time = now
             /\ Promoted(t)
                  => /\ TriggerTrue(t)
                     /\ ~CheckTimer(call.pre.trial_timers[t])
                     /\ \/ call.pre.current_trial = None
                        \/ Cleared(call.pre.current_trial)
             /\ self.trial_timers[t] # call.pre.trial_timers[t]
                  => Promoted(t) \/ Cleared(t)

\* A frame on a running ExampleExperiment with no trial current, in which
\* the trigger of a trial that was cleared less than the cooldown ago is true:
\* the trial is not promoted.
C13_Witness ==
    /\ self.cls = "ExampleExperiment"
    /\ Frame
    /\ ~self.experiment_finished
    /\ call.pre.current_trial = None
    /\ call.input["Greenbar_whiteback"] /\ ~call.input["Bluebar_whiteback"]
    /\ call.pre.trial_count["Greenbar_whiteback"] = 1
    /\ CheckTimer(call.pre.trial_timers["Greenbar_whiteback"])
    /\ now > call.pre.trial_timers["Greenbar_whiteback"].start_time
    /\ self.current_trial = None

\* ---- C14
\* C14: in the trial-table controllers, a check_skeleton call in which the
\* trigger of the trial that is current evaluates true leaves _current_trial,
\* every _trial_count entry and every cooldown timer as they were.
C14_CurrentTrialStaysOnTrue ==
    (/\ self.cls \in TrialTableClasses
     /\ Frame
     /\ call.pre.current_trial # None
     /\ TriggerTrue(call.pre.current_trial))
       => /\ self.current_trial = call.pre.current_trial
          /\ self.trial_count = call.pre.trial_count
          /\ self.trial_timers = call.pre.trial_timers

\* A running frame in which the current trial's trigger is evaluated true
\* after its cooldown timer, reset at the promotion, has run out.
C14_Witness ==
    /\ self.cls \in TrialTableClasses
    /\ Frame
    /\ ~self.experiment_finished
    /\ call.pre.current_trial # None
    /\ TriggerTrue(call.pre.current_trial)
    /\ Calls("trigger") >= 1
    /\ ~CheckTimer(call.pre.trial_timers[call.pre.current_trial])

\* ---- C15
\* C15: in SecondExperiment, a check_skeleton call made while a trial is the
\* current event, in which the triggers of both trials evaluate true, leaves
\* _event and both _count entries as they were.
C15_EventStaysWhileBothTrue ==
    (/\ self.cls = "SecondExperiment"
     /\ Frame
     /\ call.pre.event # None
     /\ \A t \in TrialNames(self.cls) :
           res_func(call.input[t].roi, call.input[t].direct))
       => /\ self.event = call.pre.event
          /\ self.count = call.pre.count

\* ---- C16
ForwardingClasses ==
    {"ExampleExperiment", "ExampleMultipleAnimalExperiment",
     "SimbaBehaviorPoolExperiment", "BsoidBehaviorPoolExperiment"}

C17_TooFewAnimalsClears ==
    (/\ self.cls = "ExampleSocialInteractionExperiment"
     /\ Frame
     /\ ~self.experiment_finished
     /\ call.input.n < min_animals
     /\ call.pre.current_trial # None)
       => /\ self.current_trial = None
          /\ self.trial_timers[call.pre.current_trial].start_time = now

\* ---- C18
\* The call just made started a stimulation (_event False to True).
StimulationStarted == Frame /\ ~call.pre.event /\ self.event

\* The call just made ended a stimulation (_event True to False).
StimulationEnded == Frame /\ call.pre.event /\ ~self.event

\* C18: in the angle-gated controllers, a stimulation is started only by a
\* frame whose angle is inside the window and made while the inter-trial
\* timer is not running; a frame that ends a stimulation starts the
\* inter-trial timer at that time, and no other call touches that timer, so
\* no stimulation starts before the inter-trial duration has elapsed since
\* the last one was turned off.
C18_StartOnlyOutsideCooldown ==
    self.cls \in AngleGatedClasses
       => /\ StimulationStarted
               => call.input = TRUE /\ ~CheckTimer(call.pre.intertrial_timer)
          /\ StimulationEnded => self.intertrial_timer.start_time = now
          /\ self.intertrial_timer # call.pre.intertrial_timer
               => StimulationStarted \/ StimulationEnded

\* A frame with the angle inside the window, made while the experiment runs
\* and the inter-trial timer started by the end of a stimulation is still
\* running: no stimulation starts.
C18_Witness ==
    /\ self.cls \in AngleGatedClasses
    /\ Frame
    /\ call.input = TRUE
    /\ ~call.pre.event
    /\ Len(call.pre.results) >= 1
    /\ CheckTimer(call.pre.intertrial_timer)
    /\ CheckTimer(call.pre.experiment_timer)
    /\ call.pre.total_time < call.pre.max_total_time
    /\ ~self.event

\* ---- C19
\* C19: in the angle-gated controllers, a check_skeleton call made while a
\* stimulation is on and more than _max_trial_time after _event_start sets
\* _event to False, whether the angle is inside the window or not.
C19_ForcedOffAfterMaxTime ==
    (/\ self.cls \in AngleGatedClasses
     /\ Frame
     /\ call.pre.event
     /\ now - call.pre.event_start > call.pre.max_trial_time)
       => ~self.event

\* ---- C20
\* C20: in the angle-gated controllers, a check_skeleton call that sets
\* _event to False is made at least _min_trial_time after _event_start, and
\* every duration recorded in _results is at least _min_trial_time.
C20_OnForMinTime ==
    self.cls \in AngleGatedClasses
       => /\ StimulationEnded
               => now - call.pre.event_start >= call.pre.min_trial_time
          /\ \A i \in 1..Len(self.results) :
               self.results[i] >= self.min_trial_time

\* A frame on a running experiment with the angle outside the window, made
\* less than _min_trial_time after a stimulation started: it stays on.
C20_Witness ==
    /\ self.cls \in AngleGatedClasses
    /\ Frame
    /\ call.input = FALSE
    /\ call.pre.event
    /\ now - call.pre.event_start < call.pre.min_trial_time
    /\ CheckTimer(call.pre.experiment_timer)
    /\ self.event

\* ---- C21
\* C21: in the angle-gated controllers, the first frame of a started
\* experiment with the angle inside the window turns the stimulation on, and
\* a check_skeleton call with the angle inside the window turns a stimulation
\* off only when more than _max_trial_time has elapsed since _event_start.
C21_OnUntilMaxTime ==
    (self.cls \in AngleGatedClasses /\ Frame /\ call.input = TRUE)
       => /\ (/\ ~call.pre.event
              /\ call.pre.results = <<>>
              /\ call.pre.intertrial_timer.start_time = NoTime
              /\ CheckTimer(call.pre.experiment_timer))
                => self.event /\ self.event_start = now
          /\ StimulationEnded
                => now - call.pre.event_start > call.pre.max_trial_time

\* A frame with the angle inside the window, evaluated on a running
\* experiment exactly _max_trial_time after the stimulation started: it stays on.
C21_Witness ==
    /\ self.cls \in AngleGatedClasses
    /\ Frame
    /\ call.input = TRUE
    /\ call.pre.event
    /\ now - call.pre.event_start = call.pre.max_trial_time
    /\ CheckTimer(call.pre.experiment_timer)
    /\ ~CheckTimer(call.pre.intertrial_timer)
    /\ self.event

\* ---- C22
\* C22: in the angle-gated controllers, every check_skeleton call that takes
\* _event from True to False adds the completed interval (now minus
\* _event_start) to _total_time, appends it to _results and starts the
\* inter-trial timer, whether the angle was inside or outside the window.
C22_OffRecordsInterval ==
    StimulationEnded
       => LET trial_time == now - call.pre.event_start
          IN  /\ self.total_time = call.pre.total_time + trial_time
              /\ self.results = Append(call.pre.results, trial_time)
              /\ self.intertrial_timer.start_time = now

\* A second stimulation ended by the angle leaving the window.
C22_Witness ==
    /\ StimulationEnded
    /\ call.input = FALSE
    /\ call.pre.results # <<>>
    /\ now - call.pre.event_start > 0

\* ---- C23
\* C23: in the angle-gated controllers, a check_skeleton call evaluated on a
\* running experiment (experiment timer running, inter-trial timer not
\* running) while a stimulation is on and the completed _total_time plus the
\* time elapsed in the current interval exceeds _max_total_time truncates the
\* interval (_event False).
C23_TruncatedAtTotalCap ==
    (/\ self.cls \in AngleGatedClasses
     /\ Frame
     /\ call.pre.event
     /\ CheckTimer(call.pre.experiment_timer)
     /\ ~CheckTimer(call.pre.intertrial_timer)
     /\ call.pre.total_time + (now - call.pre.event_start)
           > call.pre.max_total_time)
       => ~self.event

\* ---- C24
\* C24: in SpeedExperiment, a check_skeleton call that directly follows
\* another evaluated check_skeleton call and gets the same result from the
\* speed trigger issues no laser_switch command.
C24_LaserOncePerTransition ==
    [][(/\ self.cls = "SpeedExperiment"
        /\ call.op = "check_skeleton"
        /\ call.ret = "result"
        /\ call'.op = "check_skeleton"
        /\ call'.input = call.input)
          => Count(call'.trace, "laser_switch") = 0]_vars

\* ---- C25
\* C25: in SimbaBehaviorPoolExperiment and BsoidBehaviorPoolExperiment, after
\* any sequence of calls get_trial() returns the controller's current trial:
\* the name promoted and not yet cleared, or None when no trial is current.
C25_GetTrialIsCurrentTrial ==
    (self.cls \in PoolClasses /\ call.op = "get_trial")
       => call.ret = self.current_trial

\* ---- C26
\* C26: a BsoidBehaviorPoolExperiment.check_skeleton call made when the
\* experiment is already finished returns normally, with a (matched, viz)
\* pair or None: it does not end in an error.
C26_BsoidFrameReturns ==
    (/\ self.cls = "BsoidBehaviorPoolExperiment"
     /\ Frame
     /\ call.pre.experiment_finished)
       => call.ret \in {"result", None}

\* ---- C27
\* The controllers that own a stimulus process or a classifier pool.
WorkerClasses == TrialTableClasses \cup {"Reward_PreTraining"}

\* C27: in the controllers that own a stimulus process or classifier pool, a
\* start_experiment call made after the experiment has finished starts
\* neither the experiment timer nor any worker process or pool.
C27_NoStartAfterFinish ==
    (/\ self.cls \in WorkerClasses
     /\ call.op = "start_experiment"
     /\ call.pre.experiment_finished)
       => /\ self.exp_timer = call.pre.exp_timer
          /\ Calls("process.start") = 0
          /\ Calls("pool.start") = 0

\* ---- C28
\* C28: in the trial-table controllers, a check_skeleton call made before
\* start_experiment (experiment timer never started, experiment not finished)
\* changes no controller state, calls no stop_experiment and sends nothing to
\* the stimulus process or the classifier pool.
C28_FrameBeforeStartChangesNothing ==
    (/\ self.cls \in TrialTableClasses
     /\ Frame
     /\ ~call.pre.experiment_finished
     /\ call.pre.exp_timer.start_time = NoTime)
       => /\ self = call.pre
          /\ Calls("stop_experiment") = 0
          /\ \A i \in 1..Len(call.trace) :
                call.trace[i].ev \notin {"process.start", "process.end",
                                         "process.set_trial",
                                         "pool.start", "pool.end"}

\* ---- C29
\* C29: in SpeedExperiment, stop_experiment issues laser_switch(False), no
\* check_skeleton call made on a finished experiment issues
\* laser_switch(True), and in every finished state the last laser command
\* is "off".
C29_SpeedLaserOffWhenFinished ==
    self.cls = "SpeedExperiment"
       => /\ self.experiment_finished => sink.laser = "off"
          /\ Calls("stop_experiment") > 0 => LaserOffCalls > 0
          /\ (Frame /\ call.pre.experiment_finished) => LaserOnCalls = 0

\* A frame on a finished experiment whose laser had been switched on, with
\* the animal above the speed threshold.
C29_Witness ==
    /\ self.cls = "SpeedExperiment"
    /\ Frame
    /\ call.pre.experiment_finished
    /\ call.pre.event_count > 0
    /\ call.input = TRUE
    /\ sink.laser = "off"

\* ---- C30
\* C30: in TestExperiment, a check_skeleton call in which at least
\* _BP_THRESHOLD body parts moved no more than _DISTANCE_THRESHOLD, made while
\* the cumulative stimulation time is below the cap and no stimulation is in
\* progress, sets _event to True and records _event_start.
C30_StimulationStartsWhenImmobile ==
    (/\ self.cls = "TestExperiment"
     /\ Frame
     /\ call.input.still >= BP_THRESHOLD
     /\ call.pre.total_stim_time < MAX_TOTAL_STIM_TIME
     /\ call.pre.event # "True")
       => self.event = "True" /\ self.event_start = now

\* ---- C31
\* C31: in SecondExperiment, every check_skeleton call at whose end some
\* trial's _count is at or above EXP_COMPLETION calls stop_experiment in that
\* same call, so that experiment_finished is true after it.
C31_AnyCapStops ==
    (/\ self.cls = "SecondExperiment"
     /\ Frame
     /\ \E t \in TrialNames(self.cls) : self.count[t] >= ExpCompletion)
       => Calls("stop_experiment") > 0 /\ self.experiment_finished

\* ---- C32
\* The frame's result for a non-empty list of skeletons: some skeleton makes
\* the trigger true.
AnySkeleton(skeletons) == \E i \in 1..Len(skeletons) : skeletons[i]

\* The number of skeletons the loop evaluates: up to the first true one.
EvaluatedSkeletons(skeletons) ==
    IF AnySkeleton(skeletons)
    THEN CHOOSE i \in 1..Len(skeletons) :
            skeletons[i] /\ \A j \in 1..(i - 1) : ~skeletons[j]
    ELSE Len(skeletons)

\* C32: in ExampleMultipleAnimalExperiment, a frame with a non-empty list of
\* skeletons evaluates the trigger up to the first skeleton that makes it
\* true, and leaves the controller as a single-skeleton frame whose result is
\* "some skeleton makes the trigger true" would; a current trial is cleared
\* only in a frame where the trigger is false for every skeleton.
C32_AnySkeletonDrivesTrial ==
    (/\ self.cls = "ExampleMultipleAnimalExperiment"
     /\ Frame
     /\ call.input # <<>>)
       => LET single == ExampleExperiment_check_skeleton(
                            [Machine EXCEPT !.self = call.pre],
                            [t \in TrialNames(self.cls) |-> AnySkeleton(call.input)])
          IN  /\ self = single.self
              /\ call.ret = "result" => Calls("trigger") = EvaluatedSkeletons(call.input)
              /\ \A t \in TrialNames(self.cls) :
                    Cleared(t) => ~AnySkeleton(call.input)

\* A frame of two skeletons of which only the first makes the trigger true,
\* made while the trial is current: the trial stays current.
C32_Witness ==
    /\ self.cls = "ExampleMultipleAnimalExperiment"
    /\ Frame
    /\ call.input = <<TRUE, FALSE>>
    /\ call.ret = "result"
    /\ call.pre.current_trial = "Greenbar_whiteback"
    /\ self.current_trial = "Greenbar_whiteback"

\* ---- C33
\* C33: in Reward_PreTraining, a check_skeleton call made on a running
\* experiment (not finished, experiment timer running) leaves _trial_counter
\* at most the number of generated trials and sends no set_trial to the
\* stimulus process after having ended it with stop_experiment.
C33_StopsCleanlyWhenExhausted ==
    (/\ self.cls = "Reward_PreTraining"
     /\ Frame
     /\ ~call.pre.experiment_finished
     /\ CheckTimer(call.pre.exp_timer))
       => /\ self.trial_counter <= NumTrials
          /\ \A i, j \in 1..Len(call.trace) :
                (i < j /\ call.trace[i].ev = "process.end")
                   => call.trace[j].ev # "process.set_trial"

\* ---- C34
\* C34: in Reward_PreTraining, set_trial is sent to the stimulus process only
\* by a check_skeleton call, once, in a frame where the process reports no
\* active trial, the inter-trial timer is not running, the reward-region
\* trigger is false and _chosen_trial was None, and it leaves _chosen_trial
\* set; _chosen_trial is reset to None only by a frame in which the reward
\* trigger fired, which starts the inter-trial timer.  Hence between two
\* set_trial calls there is such a frame.
C34_RequestOnlyAfterReward ==
    self.cls = "Reward_PreTraining"
       => /\ Calls("process.set_trial") > 0
                => /\ Frame
                   /\ Calls("process.set_trial") = 1
                   /\ call.trace[1] = Ev("process.get_status", "False")
                   /\ ~CheckTimer(call.pre.intertrial_timer)
                   /\ ~call.input.reward
                   /\ call.pre.chosen_trial = None
                   /\ self.chosen_trial # None
          /\ (call.pre.chosen_trial # None /\ self.chosen_trial = None)
                => /\ Frame
                   /\ call.input.reward
                   /\ self.intertrial_timer.start_time = now
          /\ call.pre.trial_counter # self.trial_counter
                => Calls("process.set_trial") = 1

\* The second stimulation is requested on a running experiment.
C34_Witness ==
    /\ self.cls = "Reward_PreTraining"
    /\ Frame
    /\ Calls("process.set_trial") = 1
    /\ call.pre.trial_counter = 1
    /\ self.chosen_trial = "Pretraining"
    /\ ~self.experiment_finished

\* ---- C35
\* C35: in the trial-table controllers, whenever experiment_finished is true
\* no trial is current: _current_trial is None.
C35_NoCurrentTrialWhenFinished ==
    (self.cls \in TrialTableClasses /\ self.experiment_finished)
       => self.current_trial = None

\* ---- C36
\* C36: in OptogenExperiment the laser mirrors _event: in every state the
\* last laser_switch command was 'on' iff _event is True (no command yet
\* counting as off), and laser_switch is called exactly by the check_skeleton
\* calls that change _event, once: on when _event goes from False to True,
\* off when it goes from True to False.
C36_LaserMirrorsEvent ==
    self.cls = "OptogenExperiment"
       => /\ sink.laser = "on" <=> self.event
          /\ LaserOnCalls = (IF StimulationStarted THEN 1 ELSE 0)
          /\ LaserOffCalls = (IF StimulationEnded THEN 1 ELSE 0)
          /\ Calls("laser_switch") = LaserOnCalls + LaserOffCalls

\* The frame that ends a stimulation of OptogenExperiment has switched the
\* laser off.
C36_Witness ==
    /\ self.cls = "OptogenExperiment"
    /\ StimulationEnded
    /\ LaserOffCalls = 1
    /\ sink.laser = "off"

\* ---- C37
\* sum(self._results)
RECURSIVE SumOf(_)
SumOf(results) ==
    IF results = <<>> THEN 0 ELSE Head(results) + SumOf(Tail(results))

\* C37: in the angle-gated controllers, _total_time equals the sum of the
\* durations in _results in every state, no call decreases it, and a
\* check_skeleton call made with _total_time >= _max_total_time while the
\* experiment timer is running calls stop_experiment and starts no
\* stimulation.
C37_TotalTimeIsSumOfResults ==
    self.cls \in AngleGatedClasses
       => /\ self.total_time = SumOf(self.results)
          /\ self.total_time >= call.pre.total_time
          /\ (/\ Frame
              /\ call.pre.total_time >= call.pre.max_total_time
              /\ CheckTimer(call.pre.experiment_timer))
                => /\ Calls("stop_experiment") = 1
                   /\ self.experiment_finished
                   /\ ~StimulationStarted
                   /\ LaserOnCalls = 0

\* A frame with the angle inside the window and no stimulation on, made with
\* the cumulative cap reached and the experiment timer running.
C37_Witness ==
    /\ self.cls \in AngleGatedClasses
    /\ Frame
    /\ call.input = TRUE
    /\ ~call.pre.event
    /\ call.pre.total_time >= call.pre.max_total_time
    /\ CheckTimer(call.pre.experiment_timer)
    /\ ~CheckTimer(call.pre.intertrial_timer)
    /\ Len(self.results) >= 1

\* ---- C38
\* C38: in the trial-table controllers, a check_skeleton call leaves the
\* count and the cooldown timer of a trial that was not current and whose
\* trigger was false as they were; a trial's cooldown timer is set only by
\* the frame that clears that trial (started) or promotes it (reset), to the
\* time of that frame.
C38_OtherTrialsUntouched ==
    self.cls \in TrialTableClasses
       => \A t \in TrialNames(self.cls) :
             /\ (Frame /\ call.pre.current_trial # t /\ ~TriggerTrue(t))
                  => /\ self.trial_count[t] = call.pre.trial_count[t]
                     /\ self.trial_timers[t] = call.pre.trial_timers[t]
                     /\ self.current_trial # t
             /\ self.trial_timers[t] # call.pre.trial_timers[t]
                  => /\ (Cleared(t) /\ ~Promoted(t)) \/ (Promoted(t) /\ ~Cleared(t))
                     /\ self.trial_timers[t] = TimerStart(call.pre.trial_timers[t])

\* A frame on a running ExampleExperiment in which the green trial is and
\* stays current while the trigger of the blue trial, cleared earlier, is
\* false: the blue trial's count and timer are as before.
C38_Witness ==
    /\ self.cls = "ExampleExperiment"
    /\ Frame
    /\ call.ret = "result"
    /\ call.pre.current_trial = "Greenbar_whiteback"
    /\ call.input["Greenbar_whiteback"] /\ ~call.input["Bluebar_whiteback"]
    /\ call.pre.trial_count["Bluebar_whiteback"] = 1
    /\ call.pre.trial_timers["Bluebar_whiteback"].start_time # NoTime
    /\ now > call.pre.trial_timers["Bluebar_whiteback"].start_time
    /\ self.trial_timers["Bluebar_whiteback"] = call.pre.trial_timers["Bluebar_whiteback"]

====
